---- MODULE Spec2Model ----
(***************************************************************************)
(* LongPortFetcher (data_provider/longport_fetcher.py): the client         *)
(* initializer, the symbol translator, the raw retriever and the           *)
(* normalizer.                                                             *)
(*                                                                         *)
(* Python strings are sequences of one-character strings, so that strip,   *)
(* split, upper, startswith, isdigit and isalpha are computed character by *)
(* character.  A pandas table is a record of its column labels (in order)  *)
(* and its rows.  Floats are exact rationals plus the IEEE values NaN and  *)
(* +/-infinity, which is what division by zero produces in pandas.         *)
(***************************************************************************)
EXTENDS Integers, Sequences, FiniteSets, TLC

VARIABLES
    pc,            \* position of the fetcher's life: "new", "ready"; "call"/"done" for a single call
    HAS_LONGPORT,  \* module flag: the provider library was imported
    config,        \* the configuration object read at construction
    ctx,           \* self.ctx, the client handle (None when unset)
    sdk,           \* whether constructing the provider client succeeds: "ok", "throws"
    log,           \* level of the last record logged
    escaped,       \* exception that left __init__ ("none" when it returned)
    calls,         \* number of _fetch_raw_data calls made so far
    requests,      \* number of history_candlesticks_by_date requests issued
    request,       \* arguments of the last provider request
    last,          \* arguments of the last _fetch_raw_data call and the provider's answer
    result,        \* outcome of the last _fetch_raw_data call
    norm,          \* outcome of _normalize_data on the last fetched table
    stock_code,    \* argument of _convert_to_longport_symbol
    symbol,        \* its outcome
    df,            \* argument of _normalize_data
    out            \* its outcome

vars == <<pc, HAS_LONGPORT, config, ctx, sdk, log, escaped, calls, requests, request,
          last, result, norm, stock_code, symbol, df, out>>

None == "None"

----------------------------------------------------------------------------
(* Bounds of the model *)

\* longest run of filler characters appended to a generated stock code
MaxFill == 4

\* most _fetch_raw_data calls made on one fetcher
MaxCalls == 2

\* most candles in one provider response
MaxCandles == 2

\* most rows of a table given directly to _normalize_data
MaxRows == 3

\* largest close price in such a table (adjusted prices are -1..MaxClose)
MaxClose == 2

----------------------------------------------------------------------------
(* Python str operations *)

Digits == {"0", "1", "2", "3", "4", "5", "6", "7", "8", "9"}
LowerLetters == {"a", "h", "k", "s", "u", "x", "z"}
UpperLetters == {"A", "H", "K", "S", "U", "X", "Z"}
Whitespace == {" "}

\* str.upper() on one character
UpperChar(c) ==
    CASE c = "a" -> "A"
      [] c = "h" -> "H"
      [] c = "k" -> "K"
      [] c = "s" -> "S"
      [] c = "u" -> "U"
      [] c = "x" -> "X"
      [] c = "z" -> "Z"
      [] OTHER -> c

\* str.upper()
Upper(s) == [i \in 1..Len(s) |-> UpperChar(s[i])]

\* str.lstrip() / str.rstrip() / str.strip()
RECURSIVE LStrip(_)
LStrip(s) == IF s # <<>> /\ Head(s) \in Whitespace THEN LStrip(Tail(s)) ELSE s

RECURSIVE RStrip(_)
RStrip(s) ==
    IF s # <<>> /\ s[Len(s)] \in Whitespace
    THEN RStrip(SubSeq(s, 1, Len(s) - 1))
    ELSE s

Strip(s) == RStrip(LStrip(s))

\* c in s
Contains(s, c) == \E i \in 1..Len(s) : s[i] = c

\* str.split(c): the list of the pieces between the separators
RECURSIVE SplitAcc(_, _, _)
SplitAcc(s, c, piece) ==
    IF s = <<>> THEN <<piece>>
    ELSE IF Head(s) = c THEN <<piece>> \o SplitAcc(Tail(s), c, <<>>)
    ELSE SplitAcc(Tail(s), c, Append(piece, Head(s)))

Split(s, c) == SplitAcc(s, c, <<>>)

\* str.startswith(p)
StartsWith(s, p) == Len(s) >= Len(p) /\ SubSeq(s, 1, Len(p)) = p

\* str.isdigit() / str.isalpha(): false on the empty string
IsDigit(s) == Len(s) > 0 /\ \A i \in 1..Len(s) : s[i] \in Digits
IsAlpha(s) == Len(s) > 0 /\ \A i \in 1..Len(s) : s[i] \in LowerLetters \cup UpperLetters

----------------------------------------------------------------------------
(* _convert_to_longport_symbol *)

KnownSuffixes == {<<"S", "H">>, <<"S", "Z">>, <<"H", "K">>, <<"U", "S">>}

\* length that marks a Hong Kong code
HKLen == 5

DotSH == <<".", "S", "H">>
DotSZ == <<".", "S", "Z">>
DotBJ == <<".", "B", "J">>
DotHK == <<".", "H", "K">>
DotUS == <<".", "U", "S">>

\* value of the symbol variable before the translator has returned
NoSymbol == [symbol |-> <<>>, rule |-> "none"]

\* the branch for a code that already carries a suffix
SuffixedSymbol(s) ==
    LET parts == Split(s, ".")
        suffix == Upper(parts[Len(parts)])
    IN  IF suffix \in KnownSuffixes
        THEN [symbol |-> Upper(s), rule |-> "known_suffix"]
        ELSE [symbol |-> s, rule |-> "unknown_suffix"]

\* first A-share test, mutated: only codes starting with "60" count as Shanghai
IsShanghaiSixty(s) == StartsWith(s, <<"6", "0">>)

\* first A-share test
IsShanghai(s) == StartsWith(s, <<"6">>)

\* the default fallback, mutated: the test is inverted
FallbackInverted(s) ==
    IF ~StartsWith(s, <<"6">>)
    THEN [symbol |-> s \o DotSH, rule |-> "fallback_SH"]
    ELSE [symbol |-> s \o DotSZ, rule |-> "fallback_SZ"]

\* the default fallback
Fallback(s) ==
    IF StartsWith(s, <<"6">>)
    THEN [symbol |-> s \o DotSH, rule |-> "fallback_SH"]
    ELSE [symbol |-> s \o DotSZ, rule |-> "fallback_SZ"]

\* the A-share chain, first match wins
PrefixSymbol(s) ==
    IF IsShanghai(s)
        THEN [symbol |-> s \o DotSH, rule |-> "SH"]
    ELSE IF StartsWith(s, <<"0", "0">>) \/ StartsWith(s, <<"3", "0">>)
        THEN [symbol |-> s \o DotSZ, rule |-> "SZ"]
    ELSE IF StartsWith(s, <<"8">>) \/ StartsWith(s, <<"4">>)
        THEN [symbol |-> s \o DotBJ, rule |-> "BJ"]
    ELSE IF StartsWith(s, <<"0">>) /\ Len(s) = HKLen
        THEN [symbol |-> s \o DotHK, rule |-> "HK_padded"]
    ELSE IF IsDigit(s) /\ Len(s) <= HKLen
        THEN [symbol |-> s \o DotHK, rule |-> "HK"]
    ELSE IF IsAlpha(s)
        THEN [symbol |-> s \o DotUS, rule |-> "US"]
    ELSE Fallback(s)

\* mutated: the code is not trimmed first
ConvertUntrimmed(code) ==
    IF Contains(code, ".") THEN SuffixedSymbol(code) ELSE PrefixSymbol(code)

ConvertToLongportSymbol(code) ==
    LET s == Strip(code)
    IN  IF Contains(s, ".") THEN SuffixedSymbol(s) ELSE PrefixSymbol(s)

----------------------------------------------------------------------------
(* Floats: finite values are exact fractions n/d with d > 0; division by   *)
(* zero gives NaN or an infinity as in IEEE arithmetic.                    *)

Float(x) == [k |-> "num", n |-> x, d |-> 1]
NaN == [k |-> "nan", n |-> 0, d |-> 1]
Inf == [k |-> "inf", n |-> 1, d |-> 1]
NegInf == [k |-> "inf", n |-> -1, d |-> 1]

IsNaN(x) == x.k = "nan"

\* x / y
FloatDiv(x, y) ==
    IF IsNaN(x) \/ IsNaN(y) THEN NaN
    ELSE IF x.k = "inf" THEN (IF y.k = "inf" THEN NaN
                              ELSE IF (y.n < 0) = (x.n < 0) THEN Inf ELSE NegInf)
    ELSE IF y.k = "inf" THEN Float(0)
    ELSE IF y.n = 0 THEN (IF x.n = 0 THEN NaN ELSE IF x.n > 0 THEN Inf ELSE NegInf)
    ELSE IF y.n > 0 THEN [k |-> "num", n |-> x.n * y.d, d |-> x.d * y.n]
    ELSE [k |-> "num", n |-> -(x.n * y.d), d |-> -(x.d * y.n)]

\* x - c and x * c for an integer c > 0
FloatSub(x, c) == IF x.k = "num" THEN [k |-> "num", n |-> x.n - c * x.d, d |-> x.d] ELSE x
FloatMul(x, c) == IF x.k = "num" THEN [k |-> "num", n |-> x.n * c, d |-> x.d] ELSE x

----------------------------------------------------------------------------
(* Tables (pandas.DataFrame): column labels in order, and rows that map    *)
(* every label to a cell.                                                  *)

\* the shared output contract of the data-source adapters (data_provider/base.py)
STANDARD_COLUMNS ==
    <<"date", "open", "high", "low", "close", "volume", "amount", "pct_chg">>

Range(q) == {q[i] : i \in 1..Len(q)}

\* nothing returned or raised yet
NoOutcome == [kind |-> "none"]

\* pd.DataFrame()
EmptyFrame == [columns |-> <<>>, rows |-> <<>>]

\* df.empty
IsEmpty(t) == Len(t.columns) = 0 \/ Len(t.rows) = 0

\* df[col] = series (a new label goes last)
SetColumn(t, col, series) ==
    [columns |-> IF col \in Range(t.columns) THEN t.columns ELSE Append(t.columns, col),
     rows |-> [i \in 1..Len(t.rows) |->
                 [c \in DOMAIN t.rows[i] \cup {col} |->
                     IF c = col THEN series[i] ELSE t.rows[i][c]]]]

\* df[labels]
SelectColumns(t, labels) ==
    [columns |-> labels,
     rows |-> [i \in 1..Len(t.rows) |-> [c \in Range(labels) |-> t.rows[i][c]]]]

\* df[col]
Column(t, col) == [i \in 1..Len(t.rows) |-> t.rows[i][col]]

----------------------------------------------------------------------------
(* _normalize_data *)

\* Series.pct_change(): x[t] / x[t-1] - 1, NaN in the first row
PctChange(series) ==
    [i \in 1..Len(series) |->
        IF i = 1 THEN NaN ELSE FloatSub(FloatDiv(series[i], series[i - 1]), 1)]

\* Series.fillna(0)
FillNa(series) ==
    [i \in 1..Len(series) |-> IF IsNaN(series[i]) THEN Float(0) ELSE series[i]]

\* mutated: the change is left a ratio, not a percentage
DerivedPctChgRatio(close) == FillNa(PctChange(close))

\* df['close'].pct_change() * 100, then fillna(0)
DerivedPctChg(close) ==
    FillNa([i \in 1..Len(close) |-> FloatMul(PctChange(close)[i], 100)])

\* the loop that ensures every standard column exists
RECURSIVE EnsureColumns(_, _)
EnsureColumns(t, labels) ==
    IF labels = <<>> THEN t
    ELSE EnsureColumns(
            IF Head(labels) \in Range(t.columns) THEN t
            ELSE SetColumn(t, Head(labels), [i \in 1..Len(t.rows) |-> Float(0)]),
            Tail(labels))

\* mutated: the table is returned without selecting the standard columns
ProjectStandardKeepAll(t) == t

\* the final selection df[STANDARD_COLUMNS]
ProjectStandard(t) == SelectColumns(t, STANDARD_COLUMNS)

\* the branch for an empty input
NormalizeEmpty(t) ==
    [kind |-> "return", table |-> [columns |-> STANDARD_COLUMNS, rows |-> <<>>]]

NormalizeData(t) ==
    IF IsEmpty(t) THEN NormalizeEmpty(t)
    ELSE IF "pct_chg" \notin Range(t.columns) /\ "close" \notin Range(t.columns)
        THEN [kind |-> "raise", type |-> "KeyError", msg |-> <<"close">>]
    ELSE LET withPct ==
                 IF "pct_chg" \notin Range(t.columns)
                 THEN SetColumn(t, "pct_chg", DerivedPctChg(Column(t, "close")))
                 ELSE t
         IN  [kind |-> "return",
              table |-> ProjectStandard(EnsureColumns(withPct, STANDARD_COLUMNS))]

----------------------------------------------------------------------------
(* Dates: datetime.strptime(s, "%Y-%m-%d").date() and strftime("%Y-%m-%d") *)

DigitVal(c) ==
    CASE c = "0" -> 0 [] c = "1" -> 1 [] c = "2" -> 2 [] c = "3" -> 3 [] c = "4" -> 4
      [] c = "5" -> 5 [] c = "6" -> 6 [] c = "7" -> 7 [] c = "8" -> 8 [] c = "9" -> 9

DigitChar(n) ==
    CASE n = 0 -> "0" [] n = 1 -> "1" [] n = 2 -> "2" [] n = 3 -> "3" [] n = 4 -> "4"
      [] n = 5 -> "5" [] n = 6 -> "6" [] n = 7 -> "7" [] n = 8 -> "8" [] n = 9 -> "9"

RECURSIVE Number(_)
Number(s) == IF s = <<>> THEN 0 ELSE 10 * Number(SubSeq(s, 1, Len(s) - 1)) + DigitVal(s[Len(s)])

IsLeap(y) == y % 4 = 0 /\ (y % 100 # 0 \/ y % 400 = 0)

DaysInMonth(y, m) ==
    IF m = 2 THEN (IF IsLeap(y) THEN 29 ELSE 28)
    ELSE IF m \in {4, 6, 9, 11} THEN 30 ELSE 31

\* %Y is four digits; %m and %d are one or two digits naming 1..12 and 1..31
Strptime(s) ==
    LET parts == Split(s, "-")
    IN  IF \/ Len(parts) # 3
           \/ ~(IsDigit(parts[1]) /\ Len(parts[1]) = 4)
           \/ ~(IsDigit(parts[2]) /\ Len(parts[2]) <= 2 /\ Number(parts[2]) \in 1..12)
           \/ ~(IsDigit(parts[3]) /\ Len(parts[3]) <= 2 /\ Number(parts[3]) \in 1..31)
        THEN [kind |-> "raise", type |-> "ValueError",
              msg |-> <<"time data ", s, " does not match format %Y-%m-%d">>]
        ELSE LET y == Number(parts[1])
                 m == Number(parts[2])
                 d == Number(parts[3])
             IN  IF y < 1
                 THEN [kind |-> "raise", type |-> "ValueError",
                       msg |-> <<"year is out of range">>]
                 ELSE IF d > DaysInMonth(y, m)
                 THEN [kind |-> "raise", type |-> "ValueError",
                       msg |-> <<"day is out of range for month">>]
                 ELSE [kind |-> "return", value |-> [year |-> y, month |-> m, day |-> d]]

Strftime(t) ==
    <<DigitChar(t.year \div 1000), DigitChar((t.year \div 100) % 10),
      DigitChar((t.year \div 10) % 10), DigitChar(t.year % 10), "-",
      DigitChar(t.month \div 10), DigitChar(t.month % 10), "-",
      DigitChar(t.day \div 10), DigitChar(t.day % 10)>>


----------------------------------------------------------------------------
(* __init__ and _init_context *)

\* Python truth of a configuration value (None and "" are false)
Truthy(x) == x # None /\ x # ""

\* not app_key or not access_token
CredentialsMissing(cfg) ==
    ~Truthy(cfg.longport_app_key) \/ ~Truthy(cfg.longport_access_token)

\* mutated: a failing construction is not caught
ConstructContextUncaught(c, construct) ==
    IF construct = "throws"
    THEN [ctx |-> c, log |-> None, escaped |-> "Exception"]
    ELSE [ctx |-> "QuoteContext", log |-> "info", escaped |-> "none"]

\* the try block: Config(...), QuoteContext(lp_config)
ConstructContext(c, construct) ==
    IF construct = "throws"
    THEN [ctx |-> None, log |-> "error", escaped |-> "none"]
    ELSE [ctx |-> "QuoteContext", log |-> "info", escaped |-> "none"]

\* c is the handle on entry; an early return leaves it as it is
InitContext(c, has, cfg, construct) ==
    IF ~has THEN [ctx |-> c, log |-> "warning", escaped |-> "none"]
    ELSE IF CredentialsMissing(cfg) THEN [ctx |-> c, log |-> "warning", escaped |-> "none"]
    ELSE ConstructContext(c, construct)

\* what get_config() may return: each credential present, None or empty
ConfigOf(key, token) ==
    [longport_app_key |-> key, longport_app_secret |-> "secret",
     longport_access_token |-> token, longport_quote_level |-> "3"]

Configs ==
    {ConfigOf("key", "token"), ConfigOf(None, "token"), ConfigOf("", "token"),
     ConfigOf("key", None), ConfigOf("key", ""), ConfigOf(None, None)}

----------------------------------------------------------------------------
(* _fetch_raw_data *)

NotInitializedMessage == <<"LongPort context not initialized or credentials missing">>
FetchErrorPrefix == "LongPort fetch error: "

NoRequest == [symbol |-> <<>>, period |-> None, adjust |-> None, start |-> None, end |-> None]

\* a Decimal attribute of a candle that is missing
NoneValue == [k |-> "none", n |-> 0, d |-> 1]

\* float(x)
ToFloat(x) ==
    IF x.k = "none"
    THEN [kind |-> "raise", type |-> "TypeError",
          msg |-> <<"float() argument must be a string or a real number, not NoneType">>]
    ELSE [kind |-> "return", value |-> x]

\* one candle to one row; the dict is built attribute by attribute
CandleRow(candle) ==
    LET attrs == <<"open", "high", "low", "close", "volume", "turnover">>
        bad == {i \in 1..Len(attrs) : ToFloat(candle[attrs[i]]).kind = "raise"}
    IN  IF bad # {}
        THEN ToFloat(candle[attrs[CHOOSE i \in bad : \A j \in bad : i <= j]])
        ELSE [kind |-> "return",
              value |-> [date |-> Strftime(candle.time),
                         open |-> ToFloat(candle.open).value,
                         high |-> ToFloat(candle.high).value,
                         low |-> ToFloat(candle.low).value,
                         close |-> ToFloat(candle.close).value,
                         volume |-> ToFloat(candle.volume).value,
                         amount |-> ToFloat(candle.turnover).value]]

\* mutated: a candle that cannot be mapped is skipped
RECURSIVE CandleRowsSkipping(_, _)
CandleRowsSkipping(candles, data) ==
    IF candles = <<>> THEN [kind |-> "return", value |-> data]
    ELSE LET row == CandleRow(Head(candles))
         IN  IF row.kind = "raise" THEN CandleRowsSkipping(Tail(candles), data)
             ELSE CandleRowsSkipping(Tail(candles), Append(data, row.value))

\* the loop over the candles; the first failure ends it
RECURSIVE CandleRows(_, _)
CandleRows(candles, data) ==
    IF candles = <<>> THEN [kind |-> "return", value |-> data]
    ELSE LET row == CandleRow(Head(candles))
         IN  IF row.kind = "raise" THEN row
             ELSE CandleRows(Tail(candles), Append(data, row.value))

\* pd.DataFrame(data) for a list of row dicts
FrameOfRows(data) ==
    [columns |-> <<"date", "open", "high", "low", "close", "volume", "amount">>,
     rows |-> data]

\* mutated: no candles is reported as a failure
NoCandlesRaises == [kind |-> "raise", type |-> "ValueError", msg |-> <<"no data">>]

\* the branch for a response without candles
NoCandles == [kind |-> "return", table |-> EmptyFrame]

\* the body of the try block; provider is what the request will answer
FetchBody(sym, start_date, end_date, provider) ==
    LET start == Strptime(start_date)
        end == Strptime(end_date)
    IN  IF start.kind = "raise" THEN [outcome |-> start, issued |-> FALSE]
        ELSE IF end.kind = "raise" THEN [outcome |-> end, issued |-> FALSE]
        ELSE [issued |-> TRUE,
              request |-> [symbol |-> sym, period |-> "Period.Day",
                           adjust |-> "AdjustType.ForwardAdjust",
                           start |-> start.value, end |-> end.value],
              outcome |->
                 IF provider.kind = "raise" THEN provider
                 ELSE IF provider.candles = <<>> THEN NoCandles
                 ELSE LET data == CandleRows(provider.candles, <<>>)
                      IN  IF data.kind = "raise" THEN data
                          ELSE [kind |-> "return", table |-> FrameOfRows(data.value)]]

\* except Exception as e: raise DataFetchError(f"LongPort fetch error: {e}")
Reraise(e) ==
    [kind |-> "raise", type |-> "DataFetchError", msg |-> <<FetchErrorPrefix>> \o e.msg]

\* mutated: the handle is not tested
FetchRawDataUnguarded(c, code, start_date, end_date, provider) ==
    LET body == FetchBody(ConvertToLongportSymbol(code).symbol, start_date, end_date, provider)
    IN  [body EXCEPT !.outcome = IF @.kind = "raise" THEN Reraise(@) ELSE @]

FetchRawData(c, code, start_date, end_date, provider) ==
    IF c = None
    THEN [outcome |-> [kind |-> "raise", type |-> "DataFetchError",
                       msg |-> NotInitializedMessage],
          issued |-> FALSE]
    ELSE LET body == FetchBody(ConvertToLongportSymbol(code).symbol,
                               start_date, end_date, provider)
         IN  [body EXCEPT !.outcome = IF @.kind = "raise" THEN Reraise(@) ELSE @]

----------------------------------------------------------------------------
(* Inputs of the retriever *)

FetchCodes == {<<"6", "0", "0", "5", "1", "9">>, <<"7", "0", "0", ".", "h", "k">>}

\* start dates: well formed, and in another format
StartDates ==
    {<<"2", "0", "2", "4", "-", "0", "1", "-", "0", "5">>,
     <<"2", "0", "2", "4", "/", "0", "1", "/", "0", "5">>}

\* end dates: well formed (without padding), and a day that does not exist
EndDates ==
    {<<"2", "0", "2", "4", "-", "2", "-", "2", "9">>,
     <<"2", "0", "2", "3", "-", "0", "2", "-", "2", "9">>}

\* the i-th candle of a response; a candle may lack its turnover
Candle(i, complete) ==
    [time |-> [year |-> 2024, month |-> 1, day |-> 4 + i],
     open |-> Float(i), high |-> Float(i + 1), low |-> Float(i), close |-> Float(i + 1),
     volume |-> Float(10 * i),
     turnover |-> IF complete THEN Float(3 * i) ELSE NoneValue]

Responses ==
    {[kind |-> "raise", type |-> "OpenApiException", msg |-> <<"request timeout">>]}
    \cup {[kind |-> "return", candles |-> [i \in 1..Len(flags) |-> Candle(i, flags[i])]] :
            flags \in UNION {[1..n -> BOOLEAN] : n \in 0..MaxCandles}}

NoCall == [stock_code |-> <<>>, start_date |-> <<>>, end_date |-> <<>>,
           provider |-> [kind |-> "none"]]

----------------------------------------------------------------------------
(* The life of one fetcher: construction, then fetches and normalizations *)

\* the fetcher variables when no fetcher is in play
IdleLifecycle ==
    /\ HAS_LONGPORT = FALSE
    /\ config = None
    /\ ctx = None
    /\ sdk = "ok"
    /\ log = None
    /\ escaped = "none"
    /\ calls = 0
    /\ requests = 0
    /\ request = NoRequest
    /\ last = NoCall
    /\ result = NoOutcome
    /\ norm = NoOutcome

Init ==
    /\ pc = "new"
    /\ HAS_LONGPORT \in BOOLEAN
    /\ sdk \in {"ok", "throws"}
    /\ config = None
    /\ ctx = None
    /\ log = None
    /\ escaped = "none"
    /\ calls = 0
    /\ requests = 0
    /\ request = NoRequest
    /\ last = NoCall
    /\ result = NoOutcome
    /\ norm = NoOutcome
    /\ stock_code = <<>>
    /\ symbol = NoSymbol
    /\ df = EmptyFrame
    /\ out = NoOutcome

\* LongPortFetcher(): config = get_config(), ctx = None, _init_context()
Construct ==
    /\ pc = "new"
    /\ \E cfg \in Configs :
          LET r == InitContext(None, HAS_LONGPORT, cfg, sdk)
          IN  /\ config' = cfg
              /\ ctx' = r.ctx
              /\ log' = r.log
              /\ escaped' = r.escaped
              /\ pc' = IF r.escaped = "none" THEN "ready" ELSE "failed"
    /\ UNCHANGED <<HAS_LONGPORT, sdk, calls, requests, request, last, result, norm,
                   stock_code, symbol, df, out>>

Fetch ==
    /\ pc = "ready"
    /\ calls < MaxCalls
    /\ \E code \in FetchCodes, start_date \in StartDates, end_date \in EndDates,
          provider \in Responses :
          LET r == FetchRawData(ctx, code, start_date, end_date, provider)
          IN  /\ last' = [stock_code |-> code, start_date |-> start_date,
                          end_date |-> end_date, provider |-> provider]
              /\ result' = r.outcome
              /\ requests' = IF r.issued THEN requests + 1 ELSE requests
              /\ request' = IF r.issued THEN r.request ELSE request
              /\ log' = IF r.outcome.kind = "raise" /\ ctx # None THEN "error"
                        ELSE IF r.outcome.kind = "return" /\ IsEmpty(r.outcome.table)
                        THEN "warning" ELSE log
    /\ calls' = calls + 1
    /\ norm' = NoOutcome
    /\ UNCHANGED <<pc, HAS_LONGPORT, config, ctx, sdk, escaped, stock_code, symbol, df, out>>

\* _normalize_data on the table the last fetch returned
Normalize ==
    /\ pc = "ready"
    /\ result.kind = "return"
    /\ norm.kind = "none"
    /\ norm' = NormalizeData(result.table)
    /\ UNCHANGED <<pc, HAS_LONGPORT, config, ctx, sdk, log, escaped, calls, requests,
                   request, last, result, stock_code, symbol, df, out>>

Next == Construct \/ Fetch \/ Normalize

Spec == Init /\ [][Next]_vars

----------------------------------------------------------------------------
(* The normalizer called once on an arbitrary raw table *)

AllColumns == STANDARD_COLUMNS \o <<"turnover_rate">>

Reverse(q) == [i \in 1..Len(q) |-> q[Len(q) + 1 - i]]

\* the labels of S in the order of q
Ordered(S, q) == LET in(c) == c \in S IN SelectSeq(q, in)

RawCell(c, i, closes) ==
    CASE c = "date" -> Strftime([year |-> 2024, month |-> 1, day |-> i])
      [] c = "close" -> Float(closes[i])
      [] c = "pct_chg" -> Float(5)
      [] c = "amount" -> Float(3)
      [] OTHER -> Float(1)

\* the labels a raw table may lack, and the label sets of the raw tables
Droppable == {"close", "amount", "pct_chg", "turnover_rate"}

RawColumnSets == {{}} \cup {Range(AllColumns) \ M : M \in SUBSET Droppable}

RawTables ==
    {[columns |-> cols,
      rows |-> [i \in 1..Len(closes) |-> [c \in Range(cols) |-> RawCell(c, i, closes)]]] :
        cols \in {Ordered(S, q) : S \in RawColumnSets,
                                  q \in {AllColumns, Reverse(AllColumns)}},
        closes \in UNION {[1..n -> -1..MaxClose] : n \in 0..MaxRows}}

InitNormalize ==
    /\ pc = "call"
    /\ df \in RawTables
    /\ out = NoOutcome
    /\ stock_code = <<>>
    /\ symbol = NoSymbol
    /\ IdleLifecycle

NormalizeRaw ==
    /\ pc = "call"
    /\ out' = NormalizeData(df)
    /\ pc' = "done"
    /\ UNCHANGED <<HAS_LONGPORT, config, ctx, sdk, log, escaped, calls, requests, request,
                   last, result, norm, stock_code, symbol, df>>

NextNormalize == NormalizeRaw

SpecNormalize == InitNormalize /\ [][NextNormalize]_vars

----------------------------------------------------------------------------
(* Stock codes given to the translator: optional leading blank, a free     *)
(* head of up to two characters, a run of up to MaxFill filler characters, *)
(* an optional suffix, optional trailing blank.                            *)

HeadChars == {"6", "0", "3", "8", "4", "1", "a", "A"}

Heads == {<<>>} \cup {<<a>> : a \in HeadChars}
            \cup {<<a, b>> : a \in HeadChars, b \in HeadChars}

Fillers == {[i \in 1..n |-> c] : n \in 0..MaxFill, c \in {"1", "a"}}

Suffixes == {<<>>, <<".">>, <<".", "S", "H">>, <<".", "s", "z">>, <<".", "H", "k">>,
             <<".", "u", "s">>, <<".", "X", "X">>, <<".", "x", "x">>,
             <<".", "S", "H", ".", "x", "x">>, <<".", "x", "x", ".", "h", "k">>}

Blanks == {<<>>, <<" ">>}

Codes == {l \o h \o f \o x \o t :
            l \in Blanks, h \in Heads, f \in Fillers, x \in Suffixes, t \in Blanks}

----------------------------------------------------------------------------
(* The translator called once on an arbitrary stock code *)

InitSymbol ==
    /\ pc = "call"
    /\ stock_code \in Codes
    /\ symbol = NoSymbol
    /\ df = EmptyFrame
    /\ out = NoOutcome
    /\ IdleLifecycle

Convert ==
    /\ pc = "call"
    /\ symbol' = ConvertToLongportSymbol(stock_code)
    /\ pc' = "done"
    /\ UNCHANGED <<HAS_LONGPORT, config, ctx, sdk, log, escaped, calls, requests, request,
                   last, result, norm, stock_code, df, out>>

NextSymbol == Convert

SpecSymbol == InitSymbol /\ [][NextSymbol]_vars

----------------------------------------------------------------------------
(* Properties of the initializer and the retriever *)

\* the error of a fetch on a fetcher without handle
NotInitializedError ==
    [kind |-> "raise", type |-> "DataFetchError",
     msg |-> <<"LongPort context not initialized or credentials missing">>]

\* the date strings that name a calendar day in the form YYYY-MM-DD
WellFormedDates ==
    {<<"2", "0", "2", "4", "-", "0", "1", "-", "0", "5">>,
     <<"2", "0", "2", "4", "-", "2", "-", "2", "9">>}

\* the last call's dates parse
LastDatesParse == last.start_date \in WellFormedDates /\ last.end_date \in WellFormedDates

\* the last call's provider answer holds a candle that cannot be mapped
LastHasBadCandle ==
    /\ last.provider.kind = "return"
    /\ \E i \in 1..Len(last.provider.candles) : last.provider.candles[i].turnover.k = "none"

\* the first failure of the last call, in the order the code meets them
LastFailed ==
    \/ ~LastDatesParse
    \/ last.provider.kind = "raise"
    \/ LastHasBadCandle

\* C2: once initialization left the handle unset, every _fetch_raw_data call fails with
\* the "not initialized" DataFetchError, issues no provider request and leaves the handle
\* unset
C2_UnsetHandleFails ==
    [][(pc = "ready" /\ ctx = None)
          => /\ ctx' = None
             /\ requests' = requests
             /\ request' = request
             /\ calls' # calls => result' = NotInitializedError]_vars

C2_Witness ==
    /\ pc = "ready"
    /\ ctx = None
    /\ calls >= 2
    /\ requests = 0
    /\ result = NotInitializedError
    /\ last.start_date \in WellFormedDates

\* C3: construction never raises, and afterwards the handle is set exactly when the
\* library is available, key and token are both present and building the client did
\* not throw
C3_HandleSetIff ==
    /\ pc # "failed"
    /\ escaped = "none"
    /\ pc = "ready" =>
          (ctx # None <=> /\ HAS_LONGPORT
                          /\ config.longport_app_key \notin {None, ""}
                          /\ config.longport_access_token \notin {None, ""}
                          /\ sdk = "ok")

C3_Witness ==
    /\ pc = "ready"
    /\ HAS_LONGPORT
    /\ config.longport_app_key = "key"
    /\ config.longport_access_token = "token"
    /\ sdk = "throws"
    /\ ctx = None
    /\ calls = 0
    /\ log = "error"

\* C4: with the handle set, a call that meets a malformed date, a provider exception or
\* a candle that cannot be mapped raises DataFetchError carrying the original message;
\* nothing but DataFetchError is raised, and a table is returned only by a call without
\* failure, with one row per candle
C4_FailuresBecomeFetchError ==
    (pc = "ready" /\ ctx # None /\ calls > 0) =>
        /\ LastFailed =>
              /\ result.kind = "raise"
              /\ result.type = "DataFetchError"
              /\ Len(result.msg) > 1
              /\ Tail(result.msg) =
                    IF last.start_date \notin WellFormedDates
                        THEN <<"time data ", last.start_date, " does not match format %Y-%m-%d">>
                    ELSE IF last.end_date \notin WellFormedDates
                        THEN <<"day is out of range for month">>
                    ELSE IF last.provider.kind = "raise" THEN last.provider.msg
                    ELSE <<"float() argument must be a string or a real number, not NoneType">>
        /\ result.kind = "raise" => result.type = "DataFetchError"
        /\ result.kind = "return" =>
              /\ ~LastFailed
              /\ Len(result.table.rows) = Len(last.provider.candles)

C4_Witness ==
    /\ pc = "ready"
    /\ ctx # None
    /\ LastDatesParse
    /\ LastHasBadCandle
    /\ Len(last.provider.candles) = 2
    /\ last.provider.candles[1].turnover.k = "num"
    /\ result.kind = "raise"
    /\ result.type = "DataFetchError"

\* C5: with the handle set and dates that parse, a provider answer without candles makes
\* _fetch_raw_data return a table of zero rows, and _normalize_data turns that table
\* into one of zero rows with exactly the standard columns
C5_NoCandlesIsEmptyTable ==
    (pc = "ready" /\ ctx # None /\ calls > 0 /\ LastDatesParse
        /\ last.provider.kind = "return" /\ last.provider.candles = <<>>) =>
        /\ result.kind = "return"
        /\ result.table.rows = <<>>
        /\ norm.kind # "none" =>
              /\ norm.kind = "return"
              /\ norm.table.rows = <<>>
              /\ norm.table.columns = STANDARD_COLUMNS

C5_Witness ==
    /\ pc = "ready"
    /\ ctx # None
    /\ LastDatesParse
    /\ last.provider.kind = "return"
    /\ last.provider.candles = <<>>
    /\ requests > 0
    /\ result.kind = "return"
    /\ norm.kind = "return"
    /\ norm.table.columns = STANDARD_COLUMNS

----------------------------------------------------------------------------
(* Properties of the normalizer *)

HasColumn(t, c) == \E i \in 1..Len(t.columns) : t.columns[i] = c

\* C1: the table _normalize_data returns has exactly the standard columns, in the
\* standard order, in its labels and in every row; the only raw tables for which it
\* returns none are those with rows that carry neither close nor pct_chg
C1_StandardColumns ==
    pc = "done" =>
        /\ out.kind = "return" =>
              /\ out.table.columns = STANDARD_COLUMNS
              /\ \A i \in 1..Len(out.table.rows) :
                    DOMAIN out.table.rows[i] = {STANDARD_COLUMNS[j] : j \in 1..Len(STANDARD_COLUMNS)}
              /\ Len(out.table.rows) = IF df.columns = <<>> THEN 0 ELSE Len(df.rows)
        /\ out.kind # "return" =>
              /\ df.rows # <<>>
              /\ ~HasColumn(df, "close")
              /\ ~HasColumn(df, "pct_chg")

C1_Witness ==
    /\ pc = "done"
    /\ out.kind = "return"
    /\ Len(df.rows) = 2
    /\ HasColumn(df, "close")
    /\ df.columns[1] = "turnover_rate"
    /\ ~HasColumn(df, "amount")
    /\ ~HasColumn(df, "pct_chg")
    /\ out.table.columns = STANDARD_COLUMNS
    /\ out.table.rows[2].amount = Float(0)

\* v is the value of (c / p - 1) * 100 in float arithmetic, for integers c and p
IsPercentChange(v, c, p) ==
    IF p # 0 THEN v.k = "num" /\ v.n * p = (c - p) * 100 * v.d
    ELSE IF c > 0 THEN v.k = "inf" /\ v.n > 0
    ELSE IF c < 0 THEN v.k = "inf" /\ v.n < 0
    ELSE v.k = "nan"

\* the raw table has rows, a close column and no pct_chg column
DerivesPctChg ==
    pc = "done" /\ df.rows # <<>> /\ HasColumn(df, "close") /\ ~HasColumn(df, "pct_chg")

\* C8, as stated: the derived pct_chg is 0 in the first row and
\* (close[t] / close[t-1] - 1) * 100 in every later row, and no value is undefined
C8_AsStated ==
    DerivesPctChg =>
        /\ out.kind = "return"
        /\ Len(out.table.rows) = Len(df.rows)
        /\ out.table.rows[1].pct_chg = Float(0)
        /\ \A t \in 2..Len(df.rows) :
              /\ IsPercentChange(out.table.rows[t].pct_chg,
                                 df.rows[t].close.n, df.rows[t - 1].close.n)
              /\ out.table.rows[t].pct_chg.k # "nan"

\* C8, amended: for a raw table with rows, a close column of finite values and no
\* pct_chg column, the derived pct_chg is 0 in the first row and in every later row whose
\* close and previous close are both 0, and (close[t] / close[t-1] - 1) * 100 in every
\* other later row (infinite when only the previous close is 0); no value is NaN
C8_DerivedPctChg ==
    DerivesPctChg =>
        /\ out.kind = "return"
        /\ Len(out.table.rows) = Len(df.rows)
        /\ out.table.rows[1].pct_chg = Float(0)
        /\ \A t \in 2..Len(df.rows) :
              LET v == out.table.rows[t].pct_chg
                  c == df.rows[t].close.n
                  p == df.rows[t - 1].close.n
              IN  /\ v.k # "nan"
                  /\ IF p = 0 /\ c = 0 THEN v = Float(0) ELSE IsPercentChange(v, c, p)

C8_Witness ==
    /\ DerivesPctChg
    /\ Len(df.rows) = 3
    /\ df.rows[1].close.n = 0
    /\ df.rows[2].close.n = 0
    /\ df.rows[3].close.n = 2
    /\ out.table.rows[2].pct_chg = Float(0)
    /\ out.table.rows[3].pct_chg.k = "inf"

----------------------------------------------------------------------------
(* Properties of the translator *)

\* t is s without its leading and trailing whitespace
IsTrimOf(t, s) ==
    \E i \in 1..(Len(s) + 1), j \in 0..Len(s) :
        /\ t = SubSeq(s, i, j)
        /\ \A k \in 1..(i - 1) : s[k] \in Whitespace
        /\ \A k \in (j + 1)..Len(s) : s[k] \in Whitespace
        /\ j >= i => (s[i] \notin Whitespace /\ s[j] \notin Whitespace)
        /\ j < i => (i = Len(s) + 1 /\ j = Len(s))

\* the text after the last "." of s (s contains one)
AfterLastDot(s) ==
    LET i == CHOOSE k \in 1..Len(s) : s[k] = "." /\ \A m \in (k + 1)..Len(s) : s[m] # "."
    IN  SubSeq(s, i + 1, Len(s))

MarketSuffixes == KnownSuffixes \cup {<<"B", "J">>}

\* C6, as stated: every code starting with "6" is translated to the code followed by ".SH"
C6_AsStated ==
    (pc = "done" /\ StartsWith(stock_code, <<"6">>))
        => symbol.symbol = stock_code \o DotSH

\* C6, amended: every code that starts with "6" and contains no "." is translated to
\* the code without its trailing whitespace, followed by ".SH"
C6_SixGetsSH ==
    (pc = "done" /\ StartsWith(stock_code, <<"6">>) /\ ~Contains(stock_code, "."))
        => \E t \in {SubSeq(stock_code, 1, n) : n \in 1..Len(stock_code)} :
              /\ IsTrimOf(t, stock_code)
              /\ symbol.symbol = t \o DotSH

C6_Witness ==
    /\ pc = "done"
    /\ StartsWith(stock_code, <<"6">>)
    /\ ~Contains(stock_code, ".")
    /\ stock_code[Len(stock_code)] \in Whitespace
    /\ Len(stock_code) = 7
    /\ symbol.rule = "SH"

\* C7, as stated: a code containing "." whose text after the last ".", uppercased, is
\* SH, SZ, HK or US is translated to the whole string uppercased, and any other code
\* containing "." is returned unchanged
C7_AsStated ==
    (pc = "done" /\ Contains(stock_code, "."))
        => IF Upper(AfterLastDot(stock_code)) \in KnownSuffixes
           THEN symbol.symbol = Upper(stock_code)
           ELSE symbol.symbol = stock_code

\* C7, amended: with t the code trimmed of surrounding whitespace, a code containing "."
\* is translated to t uppercased when the text after the last "." of t, uppercased, is
\* SH, SZ, HK or US, and to t unchanged otherwise
C7_SuffixedCodes ==
    (pc = "done" /\ Contains(stock_code, "."))
        => \E i \in 1..Len(stock_code), j \in 1..Len(stock_code) :
              LET t == SubSeq(stock_code, i, j)
              IN  /\ IsTrimOf(t, stock_code)
                  /\ IF Upper(AfterLastDot(t)) \in KnownSuffixes
                     THEN symbol.symbol = Upper(t)
                     ELSE symbol.symbol = t

C7_Witness ==
    /\ pc = "done"
    /\ Contains(stock_code, ".")
    /\ stock_code[1] \in Whitespace
    /\ stock_code[Len(stock_code)] \in Whitespace
    /\ symbol.rule = "known_suffix"
    /\ symbol.symbol # Upper(stock_code)

\* C9, as stated: no input is ever translated by the final fallback
C9_AsStated ==
    pc = "done" => symbol.rule \notin {"fallback_SH", "fallback_SZ"}

\* C9, amended: only the ".SH" arm of the final fallback is unreachable; the fallback
\* is reached by separator-free codes that match no rule, and always appends ".SZ"
C9_FallbackOnlySZ ==
    (pc = "done" /\ ~Contains(stock_code, "."))
        => /\ symbol.rule # "fallback_SH"
           /\ symbol.rule = "fallback_SZ" =>
                 /\ ~StartsWith(symbol.symbol, <<"6">>)
                 /\ SubSeq(symbol.symbol, Len(symbol.symbol) - 2, Len(symbol.symbol)) = DotSZ

C9_Witness ==
    /\ pc = "done"
    /\ IsDigit(stock_code)
    /\ Len(stock_code) = HKLen + 1
    /\ symbol.rule = "fallback_SZ"

\* C10: every input is translated to a symbol of the documented form: a local code, a
\* dot and a market suffix, the whole string in uppercase
C10_DocumentedForm ==
    pc = "done" =>
        /\ Upper(symbol.symbol) = symbol.symbol
        /\ \E i \in 2..Len(symbol.symbol) :
              /\ symbol.symbol[i] = "."
              /\ SubSeq(symbol.symbol, i + 1, Len(symbol.symbol)) \in MarketSuffixes

====
